---- MODULE Spec2Model ----
(***************************************************************************)
(* A model of the layout-resolution engine of apigen-xml                   *)
(* (src/src/common/api.rs): the type-size registry, the item registry and  *)
(* the add_* ingestion operations, with calculate_member_size and          *)
(* calculate_padding as operators.                                         *)
(*                                                                         *)
(* Strings are sequences of one-character strings, so that the regular     *)
(* expression of the array shorthand, to_pascal_case, strip_suffix,        *)
(* format! and parse::<usize> are computed on characters as the code       *)
(* computes them.  HashMaps are functions whose DOMAIN is the key set.     *)
(* Option<T> is a sequence of length 0 (None) or 1 (Some).                 *)
(***************************************************************************)
EXTENDS Integers, Sequences, FiniteSets, TLC

VARIABLES
    type_sizes,        \* Api.type_sizes: HashMap<String, usize>
    definition_items,  \* Api.definition_items: HashMap<String, DefinitionItem>
    last,              \* the last call: its operation, argument, the registries before it, its result
    nops,              \* number of ingestion calls made so far
    run                \* main: where the run is, what it has written, what it returns

vars == <<type_sizes, definition_items, last, nops, run>>

(***************************************************************************)
(* Bounds of the model.                                                    *)
(***************************************************************************)
\* largest size handed to calculate_padding in SpecPad
MaxSize == 130
\* longest member sequence handed to calculate_member_size in SpecSize
MaxMembers == 3
\* number of ingestion calls in one run of Spec
MaxOps == 3
\* number of ingestion calls that build the registry in SpecSize
MaxSizeOps == 2
\* longest member sequence of spelled shorthands in SpecSpelled
MaxSpelled == 2
\* number of <generated_file> blocks of a schema in SpecRun
MaxFiles == 2
MaxDefines == 2

(***************************************************************************)
(* Program constants.                                                      *)
(***************************************************************************)
NUM_BYTES_IN_U64 == 8
NUM_BYTES_IN_U32 == 4

(***************************************************************************)
(* Option and Result.                                                      *)
(***************************************************************************)
None == <<>>
Some(x) == <<x>>

Ok(v) == [ok |-> TRUE, val |-> v, err |-> "", arg |-> <<>>]
Err(kind, a) == [ok |-> FALSE, val |-> 0, err |-> kind, arg |-> a]

\* mutant of Insert: an existing entry is kept (entry().or_insert)
Insert_if_absent(map, k, v) ==
    [x \in (DOMAIN map) \cup {k} |-> IF x \in DOMAIN map THEN map[x] ELSE v]

\* HashMap::insert
Insert(map, k, v) == [x \in (DOMAIN map) \cup {k} |-> IF x = k THEN v ELSE map[x]]

\* Let(e, F) is LET x == e IN F(x), with e evaluated once
Let(e, F(_)) == CHOOSE r \in {F(x) : x \in {e}} : TRUE

(***************************************************************************)
(* Characters.                                                             *)
(***************************************************************************)
Digits == <<"0", "1", "2", "3", "4", "5", "6", "7", "8", "9">>
LowerCase == <<"a", "b", "c", "d", "e", "f", "g", "h", "i", "j", "k", "l", "m",
               "n", "o", "p", "q", "r", "s", "t", "u", "v", "w", "x", "y", "z">>
UpperCase == <<"A", "B", "C", "D", "E", "F", "G", "H", "I", "J", "K", "L", "M",
               "N", "O", "P", "Q", "R", "S", "T", "U", "V", "W", "X", "Y", "Z">>

\* the characters the pattern's \s matches (of those the model's strings use)
IsWhitespace(c) == c \in {" ", "\t", "\n", "\r"}

IsDigit(c) == \E d \in 1..10 : Digits[d] = c
DigitValue(c) == (CHOOSE d \in 1..10 : Digits[d] = c) - 1

\* char::to_ascii_uppercase
to_ascii_uppercase(c) ==
    IF \E i \in 1..26 : LowerCase[i] = c
    THEN UpperCase[CHOOSE i \in 1..26 : LowerCase[i] = c]
    ELSE c

\* format!("{}", n) of a usize: its decimal digits
RECURSIVE ToDecimal(_)
ToDecimal(n) ==
    IF n < 10 THEN <<Digits[n + 1]>>
    ELSE ToDecimal(n \div 10) \o <<Digits[(n % 10) + 1]>>

\* str::parse::<usize>: an optional '+', then one or more decimal digits
RECURSIVE DecimalValue(_, _)
DecimalValue(s, acc) ==
    IF s = <<>> THEN acc
    ELSE DecimalValue(Tail(s), acc * 10 + DigitValue(Head(s)))

parse_usize(s) ==
    LET digits == IF s # <<>> /\ Head(s) = "+" THEN Tail(s) ELSE s
    IN  IF digits # <<>> /\ \A i \in 1..Len(digits) : IsDigit(digits[i])
        THEN Some(DecimalValue(digits, 0))
        ELSE None

\* str::starts_with(char)
starts_with(s, c) == s # <<>> /\ s[1] = c

\* str::strip_suffix(char).unwrap_or(s)
\* mutant of strip_suffix_or: the suffix is kept
strip_suffix_or_keep(s, c) == s

strip_suffix_or(s, c) ==
    IF s # <<>> /\ s[Len(s)] = c THEN SubSeq(s, 1, Len(s) - 1) ELSE s

\* to_pascal_case
RECURSIVE pascal_loop(_, _, _, _)
pascal_loop(s, i, capitalize, pascal) ==
    IF i > Len(s) THEN pascal
    ELSE IF s[i] = "_" THEN pascal_loop(s, i + 1, TRUE, pascal)
    ELSE IF capitalize
         THEN pascal_loop(s, i + 1, FALSE, Append(pascal, to_ascii_uppercase(s[i])))
         ELSE pascal_loop(s, i + 1, FALSE, Append(pascal, s[i]))

to_pascal_case(s) == pascal_loop(s, 1, TRUE, <<>>)

(***************************************************************************)
(* The pattern \[([^;]+);\s*([^\]]+)\] and Regex::captures: the leftmost   *)
(* match anywhere in the string, greedy with backtracking.                 *)
(*   - group 1 is [^;]+ followed by ';': it is the text between the '['    *)
(*     and the first ';' after it, and must not be empty;                  *)
(*   - group 2 is [^\]]+ followed by ']': it ends at the first ']' after   *)
(*     the ';'; \s* takes the longest whitespace prefix that leaves group  *)
(*     2 at least one character.                                           *)
(***************************************************************************)
\* first index >= i of s holding c, or 0
FirstIndexFrom(s, i, c) ==
    IF \E j \in i..Len(s) : s[j] = c
    THEN CHOOSE j \in i..Len(s) : s[j] = c /\ \A k \in i..(j - 1) : s[k] # c
    ELSE 0

\* number of leading whitespace characters of s
LeadingWhitespace(s) ==
    CHOOSE n \in 0..Len(s) :
        /\ \A k \in 1..n : IsWhitespace(s[k])
        /\ (n < Len(s) => ~IsWhitespace(s[n + 1]))

\* the match of the pattern that starts at index i of s: None or Some([g1, g2])
MatchAt(s, i) ==
    IF s[i] # "[" THEN None
    ELSE Let(FirstIndexFrom(s, i + 1, ";"), LAMBDA semi :
         IF semi = 0 \/ semi = i + 1 THEN None
         ELSE Let(FirstIndexFrom(s, semi + 1, "]"), LAMBDA close :
              IF close = 0 \/ close = semi + 1 THEN None
              ELSE Let(SubSeq(s, semi + 1, close - 1), LAMBDA seg :
                   Let(LeadingWhitespace(seg), LAMBDA ws :
                   Some([g1 |-> SubSeq(s, i + 1, semi - 1),
                         g2 |-> SubSeq(seg,
                                       (IF ws < Len(seg) THEN ws ELSE Len(seg) - 1) + 1,
                                       Len(seg))])))))

\* Regex::captures
captures(s) ==
    Let([i \in 1..Len(s) |-> MatchAt(s, i)], LAMBDA m :
        IF \E i \in 1..Len(s) : m[i] # None
        THEN m[CHOOSE i \in 1..Len(s) : m[i] # None /\ \A k \in 1..(i - 1) : m[k] = None]
        ELSE None)

(***************************************************************************)
(* Member.                                                                 *)
(***************************************************************************)
Member(t, n) == [type_name |-> t, qualifier |-> <<>>, name |-> n]

(***************************************************************************)
(* calculate_member_size: the loop over the members, with the early        *)
(* returns of the ? operators.                                             *)
(***************************************************************************)
\* mutant of array_member_size: the element size and the count are added
array_member_size_sum(tn, sizes) ==
    Let(captures(tn), LAMBDA caps :
        IF caps = None THEN Err("InvalidArrayTypeFormat", tn)
        ELSE IF caps[1].g1 \notin DOMAIN sizes THEN Err("TypeNotFound", caps[1].g1)
        ELSE IF caps[1].g2 \notin DOMAIN sizes THEN Err("ConstantNotFound", caps[1].g2)
        ELSE Ok(sizes[caps[1].g1] + sizes[caps[1].g2]))

\* mutant of array_member_size: the count is looked up before the element type
array_member_size_count_first(tn, sizes) ==
    Let(captures(tn), LAMBDA caps :
        IF caps = None THEN Err("InvalidArrayTypeFormat", tn)
        ELSE IF caps[1].g2 \notin DOMAIN sizes THEN Err("ConstantNotFound", caps[1].g2)
        ELSE IF caps[1].g1 \notin DOMAIN sizes THEN Err("TypeNotFound", caps[1].g1)
        ELSE Ok(sizes[caps[1].g1] * sizes[caps[1].g2]))

\* the array branch for one member type (the body of `else if starts_with('[')`)
array_member_size(tn, sizes) ==
    Let(captures(tn), LAMBDA caps :
        IF caps = None THEN Err("InvalidArrayTypeFormat", tn)
        ELSE Let(caps[1].g1, LAMBDA base_type :
             Let(caps[1].g2, LAMBDA count_name :
                 IF base_type \notin DOMAIN sizes
                 THEN Err("TypeNotFound", base_type)
                 ELSE IF count_name \notin DOMAIN sizes
                 THEN Err("ConstantNotFound", count_name)
                 ELSE Ok(sizes[base_type] * sizes[count_name]))))

RECURSIVE member_size_loop(_, _, _, _)
member_size_loop(members, sizes, i, size) ==
    IF i > Len(members) THEN Ok(size)
    ELSE Let(members[i].type_name, LAMBDA tn :
         IF tn \in DOMAIN sizes
         THEN member_size_loop(members, sizes, i + 1, size + sizes[tn])
         ELSE IF starts_with(tn, "[")
         THEN Let(array_member_size(tn, sizes), LAMBDA a :
              IF ~a.ok THEN a
              ELSE member_size_loop(members, sizes, i + 1, size + a.val))
         ELSE Err("TypeNotFound", tn))

\* mutant of calculate_member_size: the loop misses the first member
calculate_member_size_skip_first(members, sizes) == member_size_loop(members, sizes, 2, 0)

calculate_member_size(members, sizes) == member_size_loop(members, sizes, 1, 0)

(***************************************************************************)
(* calculate_padding.                                                      *)
(***************************************************************************)
S_padding == <<"p", "a", "d", "d", "i", "n", "g">>
S_u8 == <<"u", "8">>
S_u32 == <<"u", "3", "2">>

\* mutant of calculate_padding: no scalar for a padding of 4
calculate_padding_no_scalar(size) ==
    LET padding == (NUM_BYTES_IN_U64 - (size % NUM_BYTES_IN_U64)) % NUM_BYTES_IN_U64 IN
    IF padding > 0
    THEN Some(Member(<<"[">> \o S_u8 \o <<";", " ">> \o ToDecimal(padding) \o <<"]">>,
                     S_padding))
    ELSE None

calculate_padding(size) ==
    LET padding == (NUM_BYTES_IN_U64 - (size % NUM_BYTES_IN_U64)) % NUM_BYTES_IN_U64 IN
    IF padding = NUM_BYTES_IN_U32
    THEN Some(Member(S_u32, S_padding))
    ELSE IF padding > 0
    THEN Some(Member(<<"[">> \o S_u8 \o <<";", " ">> \o ToDecimal(padding) \o <<"]">>,
                     S_padding))
    ELSE None

(***************************************************************************)
(* The string literals of api.rs.                                          *)
(***************************************************************************)
S_i8 == <<"i", "8">>
S_u16 == <<"u", "1", "6">>
S_i16 == <<"i", "1", "6">>
S_i32 == <<"i", "3", "2">>
S_u64 == <<"u", "6", "4">>
S_i64 == <<"i", "6", "4">>
S_f64 == <<"f", "6", "4">>
S_usize == <<"u", "s", "i", "z", "e">>
S_c_void == <<"*", "m", "u", "t", " ", "s", "t", "d", ":", ":", "f", "f", "i", ":", ":", "c", "_", "v", "o", "i", "d">>
S_proto == <<"p", "r", "o", "t", "o">>
S_size == <<"s", "i", "z", "e">>
S_hdr == <<"h", "d", "r">>
S_stype == <<"s", "t", "y", "p", "e">>
S_pNext == <<"p", "N", "e", "x", "t">>
S_CommandHdr == <<"C", "o", "m", "m", "a", "n", "d", "H", "d", "r">>
S_Hdr == <<"H", "d", "r">>
S_FFI == <<"F", "F", "I">>
S_count == <<"_", "c", "o", "u", "n", "t">>

(***************************************************************************)
(* Api::new: the seeded type-size registry; every other field is empty.    *)
(***************************************************************************)
Api_new_type_sizes ==
    [x \in {S_u8, S_i8, S_u16, S_i16, S_i32, S_u32, S_u64, S_i64, S_f64, S_usize, S_c_void} |->
        IF x \in {S_u8, S_i8} THEN 1
        ELSE IF x \in {S_u16, S_i16} THEN 2
        ELSE IF x \in {S_i32, S_u32} THEN 4
        ELSE 8]

\* an empty HashMap
EmptyMap == [x \in {} |-> 0]

(***************************************************************************)
(* DefinitionItem: the variant's tag and its payload.                      *)
(***************************************************************************)
Item(kind, val) == [kind |-> kind, val |-> val]

\* what a call leaves behind: the two registries and the Result it returns
Outcome(sizes, items, result) == [sizes |-> sizes, items |-> items, result |-> result]

(***************************************************************************)
(* add_constant                                                            *)
(***************************************************************************)
add_constant(constant, sizes, items) ==
    Let(constant.name, LAMBDA item_name :
    Let(parse_usize(constant.value), LAMBDA value :
        IF value = None
        THEN Outcome(sizes, items, Err("InvalidConstantValue", <<constant.name, constant.value>>))
        ELSE Outcome(Insert(sizes, item_name, value[1]),
                     Insert(items, item_name, Item("Constant", constant)),
                     Ok(0))))

(***************************************************************************)
(* add_struct: the ArrayInfo post-processing, then the size.               *)
(***************************************************************************)
RECURSIVE array_info_loop(_, _, _)
array_info_loop(members, i, array_info) ==
    IF i > Len(members) THEN array_info
    ELSE Let(members[i], LAMBDA member :
         Let(captures(member.type_name), LAMBDA caps :
         IF caps = None THEN array_info_loop(members, i + 1, array_info)
         ELSE Let(caps[1].g1, LAMBDA base_type :
              Let(member.name, LAMBDA array_member_name :
              Let(strip_suffix_or(array_member_name, "s"), LAMBDA singular_name :
              Let(singular_name \o S_count, LAMBDA count_member_name :
              IF \E k \in 1..Len(members) : members[k].name = count_member_name
              THEN array_info_loop(members, i + 1,
                       Append(array_info,
                              [array_member_name |-> array_member_name,
                               array_base_type |-> base_type,
                               count_member_name |-> count_member_name]))
              ELSE array_info_loop(members, i + 1, array_info)))))))

\* mutant of add_struct: the struct is padded to a multiple of 8 like a
\* composed request
add_struct_padded(struct_def, sizes, items) ==
    Let(calculate_member_size(struct_def.common.members, sizes), LAMBDA size :
        IF ~size.ok THEN Outcome(sizes, items, size)
        ELSE Let(calculate_padding(size.val), LAMBDA padding :
             Outcome(Insert(sizes, struct_def.common.name,
                            size.val + ((8 - (size.val % 8)) % 8)),
                     Insert(items, struct_def.common.name,
                            Item("Struct",
                                 [common |-> [struct_def.common EXCEPT
                                                 !.members = @ \o padding]])),
                     Ok(0))))

\* mutant of add_struct: the sizes of the structs already registered are
\* resolved again against the new registry
add_struct_propagating(struct_def, sizes, items) ==
    Let(calculate_member_size(struct_def.common.members, sizes), LAMBDA size :
        IF ~size.ok THEN Outcome(sizes, items, size)
        ELSE Let(Insert(sizes, struct_def.common.name, size.val), LAMBDA sizes1 :
             Outcome([n \in DOMAIN sizes1 |->
                         IF /\ n # struct_def.common.name
                            /\ n \in DOMAIN items
                            /\ items[n].kind = "Struct"
                            /\ calculate_member_size(items[n].val.common.members, sizes1).ok
                         THEN calculate_member_size(items[n].val.common.members, sizes1).val
                         ELSE sizes1[n]],
                     Insert(items, struct_def.common.name, Item("Struct", struct_def)),
                     Ok(0))))

add_struct(struct_def, sizes, items) ==
    Let([common |-> [struct_def.common EXCEPT
            !.array_info = array_info_loop(struct_def.common.members, 1,
                                           struct_def.common.array_info)]],
        LAMBDA processed :
    Let(processed.common.name, LAMBDA item_name :
    Let(calculate_member_size(processed.common.members, sizes), LAMBDA size :
        IF ~size.ok THEN Outcome(sizes, items, size)
        ELSE Outcome(Insert(sizes, item_name, size.val),
                     Insert(items, item_name, Item("Struct", processed)),
                     Ok(0)))))

(***************************************************************************)
(* add_enum, add_flag                                                      *)
(***************************************************************************)
\* mutant of add_enum: an unknown underlying type defaults to 4 bytes
add_enum_default(new_enum, sizes, items) ==
    Outcome(Insert(sizes, new_enum.name,
                   IF new_enum.type_name \in DOMAIN sizes THEN sizes[new_enum.type_name] ELSE 4),
            Insert(items, new_enum.name, Item("Enum", new_enum)),
            Ok(0))

add_enum(new_enum, sizes, items) ==
    Let(new_enum.name, LAMBDA item_name :
        IF new_enum.type_name \notin DOMAIN sizes
        THEN Outcome(sizes, items, Err("TypeNotFound", new_enum.type_name))
        ELSE Outcome(Insert(sizes, item_name, sizes[new_enum.type_name]),
                     Insert(items, item_name, Item("Enum", new_enum)),
                     Ok(0)))

add_flag(new_flag, sizes, items) ==
    Let(new_flag.name, LAMBDA item_name :
        IF new_flag.type_name \notin DOMAIN sizes
        THEN Outcome(sizes, items, Err("TypeNotFound", new_flag.type_name))
        ELSE Outcome(Insert(sizes, item_name, sizes[new_flag.type_name]),
                     Insert(items, item_name, Item("Flag", new_flag)),
                     Ok(0)))

(***************************************************************************)
(* add_object, add_function: no Result, no size.                           *)
(***************************************************************************)
\* mutant of add_object: the object is stored under the name it came with
add_object_by_name(object, sizes, items) ==
    Outcome(sizes, Insert(items, object.name, Item("Object", object)), Ok(0))

add_object(object, sizes, items) ==
    Let([object EXCEPT !.name = object.ffi], LAMBDA renamed :
    Let(renamed.name, LAMBDA item_name :
        Outcome(sizes, Insert(items, item_name, Item("Object", renamed)), Ok(0))))

\* mutant of add_function: the size recorded under the name is dropped
add_function_unsizing(function, sizes, items) ==
    Outcome([n \in (DOMAIN sizes) \ {function.name} |-> sizes[n]],
            Insert(items, function.name, Item("Function", function)),
            Ok(0))

add_function(function, sizes, items) ==
    Let(function.name, LAMBDA item_name :
        Outcome(sizes, Insert(items, item_name, Item("Function", function)), Ok(0)))

(***************************************************************************)
(* add_protocol                                                            *)
(***************************************************************************)
\* the synthesized header type name
command_hdr_name(name) == to_pascal_case(name) \o S_CommandHdr

\* the synthesized header struct
command_hdr_struct(protocol_struct_name) ==
    [common |-> [name |-> protocol_struct_name,
                 members |-> <<Member(S_u32, S_proto), Member(S_u32, S_size)>>,
                 array_info |-> <<>>]]

\* mutant of compose_entry: the padding is computed before the header is prepended
compose_entry_pad_first(entry, header_member, sizes) ==
    Let(calculate_member_size(entry.members, sizes), LAMBDA size :
        IF ~size.ok THEN size
        ELSE [ok |-> TRUE,
              val |-> [entry EXCEPT !.members =
                          <<header_member>> \o entry.members \o calculate_padding(size.val)],
              err |-> "", arg |-> <<>>])

\* the body of the loops over requests and responses: prepend the header
\* member, resolve the size, push the padding member if there is one
compose_entry(entry, header_member, sizes) ==
    Let(<<header_member>> \o entry.members, LAMBDA members :
    Let(calculate_member_size(members, sizes), LAMBDA size :
        IF ~size.ok THEN size
        ELSE [ok |-> TRUE,
              val |-> [entry EXCEPT !.members = members \o calculate_padding(size.val)],
              err |-> "", arg |-> <<>>]))

\* one loop (for req in &mut protocol.requests): the composed entries, or
\* the first error
RECURSIVE compose_loop(_, _, _, _, _)
compose_loop(entries, header_member, sizes, i, done) ==
    IF i > Len(entries) THEN [ok |-> TRUE, val |-> done, err |-> "", arg |-> <<>>]
    ELSE Let(compose_entry(entries[i], header_member, sizes), LAMBDA e :
         IF ~e.ok THEN e
         ELSE compose_loop(entries, header_member, sizes, i + 1, Append(done, e.val)))

\* the rest of add_protocol once the header is registered
compose_protocol(protocol, protocol_struct_name, sizes1, items1) ==
    Let(Member(protocol_struct_name, S_hdr), LAMBDA header_member :
    Let(compose_loop(protocol.requests, header_member, sizes1, 1, <<>>), LAMBDA reqs :
        IF ~reqs.ok THEN Outcome(sizes1, items1, reqs)
        ELSE Let(compose_loop(protocol.responses, header_member, sizes1, 1, <<>>), LAMBDA ress :
             IF ~ress.ok THEN Outcome(sizes1, items1, ress)
             ELSE Outcome(sizes1,
                          Insert(items1, protocol.name,
                                 Item("Protocol",
                                      [name |-> protocol.name,
                                       protocol_struct_name |-> protocol_struct_name,
                                       requests |-> reqs.val,
                                       responses |-> ress.val])),
                          Ok(0)))))

add_protocol(protocol, sizes, items) ==
    Let(command_hdr_name(protocol.name), LAMBDA protocol_struct_name :
    Let(command_hdr_struct(protocol_struct_name), LAMBDA protocol_struct :
    Let(calculate_member_size(protocol_struct.common.members, sizes), LAMBDA size :
        IF ~size.ok THEN Outcome(sizes, items, size)
        ELSE compose_protocol(protocol, protocol_struct_name,
                              Insert(sizes, protocol_struct_name, size.val),
                              Insert(items, protocol_struct_name,
                                     Item("Struct", protocol_struct))))))

(***************************************************************************)
(* add_extensible_structs                                                  *)
(***************************************************************************)
\* the discriminator enum: one entry per variant, From<SType> for EnumEntry
stype_enum(stypes_name, parsed_structs) ==
    [name |-> stypes_name,
     type_name |-> S_u32,
     entries |-> [i \in 1..Len(parsed_structs) |->
                     [name |-> parsed_structs[i].stype.name,
                      value |-> parsed_structs[i].stype.value]]]

\* the wire header shape, "<Pascal>Hdr" (protocol_struct)
wire_hdr_struct(stypes_name) ==
    [name |-> to_pascal_case(stypes_name) \o S_Hdr,
     members |-> <<Member(stypes_name, S_stype), Member(S_u32, S_size)>>,
     array_info |-> <<>>]

\* the native header shape, "<Pascal>FFI" (ffi_struct)
ffi_hdr_struct(stypes_name) ==
    [name |-> to_pascal_case(stypes_name) \o S_FFI,
     members |-> <<Member(stypes_name, S_stype), Member(S_c_void, S_pNext)>>,
     array_info |-> <<>>]

\* mutant of padded_variant: the padding is never attached
padded_variant_unpadded(s, total_size) == s

\* s.padding = calculate_padding(total_size)
padded_variant(s, total_size) == [s EXCEPT !.padding = calculate_padding(total_size)]

\* the loop over the variants: each is resolved against the registry as the
\* variants before it left it, and registered at once
RECURSIVE variants_loop(_, _, _, _, _, _)
variants_loop(parsed_structs, protocol_struct_size, sizes, items, i, done) ==
    IF i > Len(parsed_structs)
    THEN [sizes |-> sizes, items |-> items, structs |-> done, result |-> Ok(0)]
    ELSE Let(parsed_structs[i], LAMBDA s :
         Let(s.common.name, LAMBDA item_name :
         Let(calculate_member_size(s.common.members, sizes), LAMBDA size :
         IF ~size.ok
         THEN [sizes |-> sizes, items |-> items, structs |-> done, result |-> size]
         ELSE Let(size.val + protocol_struct_size, LAMBDA total_size :
              Let(padded_variant(s, total_size), LAMBDA padded :
              variants_loop(parsed_structs, protocol_struct_size,
                            Insert(sizes, item_name, total_size),
                            Insert(items, item_name, Item("ExtensibleStruct", padded)),
                            i + 1, Append(done, padded)))))))

\* mutant of compose_family: the wire header is registered as a struct, the
\* way add_protocol registers its header
compose_family_registering_hdr(stypes_name, parsed_structs, sizes, items) ==
    Let(wire_hdr_struct(stypes_name), LAMBDA protocol_struct :
    Let(calculate_member_size(protocol_struct.members, sizes),
        LAMBDA protocol_struct_size :
        IF ~protocol_struct_size.ok THEN Outcome(sizes, items, protocol_struct_size)
        ELSE Let(variants_loop(parsed_structs, protocol_struct_size.val,
                               Insert(sizes, protocol_struct.name, protocol_struct_size.val),
                               Insert(items, protocol_struct.name,
                                      Item("Struct", [common |-> protocol_struct])),
                               1, <<>>),
                 LAMBDA v :
                 IF ~v.result.ok THEN Outcome(v.sizes, v.items, v.result)
                 ELSE Outcome(v.sizes,
                              Insert(v.items, stypes_name,
                                     Item("ExtensibleStructs",
                                          [stypes_name |-> stypes_name,
                                           structs |-> v.structs,
                                           protocol_struct |-> protocol_struct,
                                           ffi_struct |-> ffi_hdr_struct(stypes_name)])),
                              Ok(0)))))

\* the rest of add_extensible_structs once the discriminator enum is registered
compose_family(stypes_name, parsed_structs, sizes, items) ==
    Let(wire_hdr_struct(stypes_name), LAMBDA protocol_struct :
    Let(calculate_member_size(protocol_struct.members, sizes),
        LAMBDA protocol_struct_size :
        IF ~protocol_struct_size.ok THEN Outcome(sizes, items, protocol_struct_size)
        ELSE Let(ffi_hdr_struct(stypes_name), LAMBDA ffi_struct :
             Let(variants_loop(parsed_structs, protocol_struct_size.val, sizes, items, 1, <<>>),
                 LAMBDA v :
                 IF ~v.result.ok THEN Outcome(v.sizes, v.items, v.result)
                 ELSE Outcome(v.sizes,
                              Insert(v.items, stypes_name,
                                     Item("ExtensibleStructs",
                                          [stypes_name |-> stypes_name,
                                           structs |-> v.structs,
                                           protocol_struct |-> protocol_struct,
                                           ffi_struct |-> ffi_struct])),
                              Ok(0))))))

add_extensible_structs(stypes_name, parsed_structs, sizes, items) ==
    Let(add_enum(stype_enum(stypes_name, parsed_structs), sizes, items), LAMBDA e :
        IF ~e.result.ok THEN e
        ELSE compose_family(stypes_name, parsed_structs, e.sizes, e.items))

(***************************************************************************)
(* The records the schema reader hands to the engine (parser/xml.rs builds *)
(* them from Default::default(): array_info and padding start empty, the   *)
(* protocol's header name starts empty).                                   *)
(***************************************************************************)
Constant(t, n, v) == [type_name |-> t, name |-> n, value |-> v]
StructDef(n, members) == [common |-> [name |-> n, members |-> members, array_info |-> <<>>]]
Enum(n, t, entries) == [name |-> n, type_name |-> t, entries |-> entries]
Object(n, ffi, rust) == [name |-> n, ffi |-> ffi, rust |-> rust]
Function(n, ret, members) == [name |-> n, ret |-> ret, members |-> members]
Entry(opn, opv, members) == [opcode |-> [name |-> opn, value |-> opv], members |-> members]
Protocol(n, requests, responses) ==
    [name |-> n, protocol_struct_name |-> <<>>, requests |-> requests, responses |-> responses]
ExtensibleStruct(sn, sv, n, members) ==
    [stype |-> [name |-> sn, value |-> sv],
     common |-> [name |-> n, members |-> members, array_info |-> <<>>],
     padding |-> None]

\* the array shorthand "[T; C]" as the schema writes it
ArrayType(t, c) == <<"[">> \o t \o <<";", " ">> \o c \o <<"]">>

(***************************************************************************)
(* The names and inputs the model draws from.                              *)
(***************************************************************************)
I_N == <<"N">>
I_S == <<"S">>
I_T == <<"T">>
I_E == <<"E">>
I_F == <<"F">>
I_O == <<"O">>
I_Q == <<"Q">>
I_A == <<"A">>
I_B == <<"B">>
I_a == <<"a">>
I_b == <<"b">>
I_c == <<"c">>
I_st == <<"s", "t">>
I_foo_bar == <<"f", "o", "o", "_", "b", "a", "r">>
I_FooBarCommandHdr == <<"F", "o", "o", "B", "a", "r">> \o S_CommandHdr
I_items == <<"i", "t", "e", "m", "s">>
I_item_count == <<"i", "t", "e", "m", "_", "c", "o", "u", "n", "t">>

ConstantInputs ==
    { Constant(S_u32, I_N, <<"3">>),        \* a count
      Constant(S_u32, I_N, <<"x">>),        \* not a number
      Constant(S_u32, S_u32, <<"2">>) }     \* named like a primitive

StructInputs ==
    { StructDef(I_S, <<Member(S_u32, I_a)>>),
      StructDef(I_S, <<Member(S_u32, I_a), Member(S_u32, I_b), Member(S_u32, I_c)>>),
      StructDef(I_S, <<Member(ArrayType(S_u8, I_N), I_items), Member(S_u32, I_item_count)>>),
      StructDef(I_T, <<Member(I_S, I_a), Member(I_Q, I_b)>>),
      StructDef(I_T, <<Member(I_S, I_a)>>) }

EnumInputs ==
    { Enum(I_E, S_u32, <<[name |-> I_a, value |-> <<"0">>]>>),
      Enum(I_E, I_Q, <<>>) }

FlagInputs ==
    { Enum(I_F, S_u8, <<[name |-> I_a, value |-> <<"1">>]>>),
      Enum(I_F, I_Q, <<>>) }

ObjectInputs ==
    { Object(<<>>, I_O, I_a),
      Object(I_Q, I_S, I_a) }

FunctionInputs ==
    { Function(I_S, S_u32, <<Member(I_Q, I_a)>>),
      Function(I_b, I_Q, <<>>) }

ProtocolInputs ==
    { Protocol(I_foo_bar, <<Entry(I_a, <<"1">>, <<>>)>>, <<>>),
      Protocol(I_foo_bar, <<Entry(I_a, <<"1">>, <<Member(S_u32, I_a)>>)>>,
                          <<Entry(I_b, <<"2">>, <<Member(S_u8, I_a), Member(I_S, I_b)>>)>>),
      Protocol(I_foo_bar, <<Entry(I_a, <<"1">>, <<Member(S_u64, I_a)>>)>>,
                          <<Entry(I_b, <<"2">>, <<Member(I_Q, I_a)>>)>>),
      Protocol(I_foo_bar, <<Entry(I_a, <<"1">>, <<Member(I_FooBarCommandHdr, I_a)>>)>>, <<>>) }

ExtensibleInputs ==
    { [stypes_name |-> I_st,
       parsed_structs |-> <<ExtensibleStruct(I_a, <<"0">>, I_A, <<Member(S_u32, I_a)>>)>>],
      [stypes_name |-> I_st,
       parsed_structs |-> <<ExtensibleStruct(I_a, <<"0">>, I_A, <<Member(S_u8, I_a)>>),
                            ExtensibleStruct(I_b, <<"1">>, I_B, <<Member(I_A, I_a), Member(I_st, I_b)>>)>>],
      [stypes_name |-> I_st,
       parsed_structs |-> <<ExtensibleStruct(I_a, <<"0">>, I_A, <<Member(S_u64, I_a)>>),
                            ExtensibleStruct(I_b, <<"1">>, I_B, <<Member(I_Q, I_a)>>)>>],
      [stypes_name |-> I_st,
       parsed_structs |-> <<ExtensibleStruct(I_a, <<"0">>, I_A, <<Member(ArrayType(S_u8, I_N), I_a)>>)>>] }

(***************************************************************************)
(* The state machine: one action per ingestion operation.  A call runs to  *)
(* completion; `last` keeps what was called, on which registry, and what   *)
(* it returned.                                                            *)
(***************************************************************************)
Call(op, arg, out) ==
    /\ type_sizes' = out.sizes
    /\ definition_items' = out.items
    /\ last' = [op |-> op, arg |-> arg, pre_sizes |-> type_sizes, result |-> out.result]
    /\ nops' = nops + 1
    /\ UNCHANGED run

Init ==
    /\ type_sizes = Api_new_type_sizes
    /\ definition_items = EmptyMap
    /\ last = [op |-> "new", arg |-> <<>>, pre_sizes |-> Api_new_type_sizes, result |-> Ok(0)]
    /\ nops = 0
    /\ run = [pc |-> "main", out_dir |-> FALSE, generated_files |-> 0,
              created |-> 0, emitted |-> 0, result |-> Ok(0),
              def |-> [name |-> <<>>, items |-> <<>>], defines |-> 0,
              definitions |-> EmptyMap]

AddConstant ==
    /\ nops < MaxOps
    /\ \E c \in ConstantInputs :
          Call("add_constant", c, add_constant(c, type_sizes, definition_items))

AddStruct ==
    /\ nops < MaxOps
    /\ \E s \in StructInputs :
          Call("add_struct", s, add_struct(s, type_sizes, definition_items))

AddEnum ==
    /\ nops < MaxOps
    /\ \E e \in EnumInputs :
          Call("add_enum", e, add_enum(e, type_sizes, definition_items))

AddFlag ==
    /\ nops < MaxOps
    /\ \E f \in FlagInputs :
          Call("add_flag", f, add_flag(f, type_sizes, definition_items))

AddObject ==
    /\ nops < MaxOps
    /\ \E o \in ObjectInputs :
          Call("add_object", o, add_object(o, type_sizes, definition_items))

AddFunction ==
    /\ nops < MaxOps
    /\ \E f \in FunctionInputs :
          Call("add_function", f, add_function(f, type_sizes, definition_items))

AddProtocol ==
    /\ nops < MaxOps
    /\ \E p \in ProtocolInputs :
          Call("add_protocol", p, add_protocol(p, type_sizes, definition_items))

AddExtensibleStructs ==
    /\ nops < MaxOps
    /\ \E x \in ExtensibleInputs :
          Call("add_extensible_structs", x,
               add_extensible_structs(x.stypes_name, x.parsed_structs,
                                      type_sizes, definition_items))

Next ==
    \/ AddConstant
    \/ AddStruct
    \/ AddEnum
    \/ AddFlag
    \/ AddObject
    \/ AddFunction
    \/ AddProtocol
    \/ AddExtensibleStructs

Spec == Init /\ [][Next]_vars

(***************************************************************************)
(* The two pure functions on their own: a call of calculate_padding on a   *)
(* size, and a call of calculate_member_size on a member sequence against  *)
(* a registry that a few ingestion calls have built.                       *)
(***************************************************************************)
Apply(op, arg, result) ==
    /\ last' = [op |-> op, arg |-> arg, pre_sizes |-> type_sizes, result |-> result]
    /\ UNCHANGED <<type_sizes, definition_items, nops, run>>

ApplyPadding ==
    /\ last.op = "new"
    /\ \E n \in 0..MaxSize : Apply("calculate_padding", n, calculate_padding(n))

SpecPad == Init /\ [][ApplyPadding]_vars

\* the member types SpecSize draws from: primitives, a name a struct may
\* register, two array shorthands, and two strings that only look like one
T_u8_N == ArrayType(S_u8, I_N)
T_S_N == ArrayType(I_S, I_N)
T_no_semicolon == <<"[", "u", "8", " ", "N", "]">>
T_no_bracket == <<"[", "u", "8", ";", " ", "N">>

SizeTypes == {S_u8, S_u32, S_u64, I_S, T_u8_N, T_S_N, T_no_semicolon, T_no_bracket}

\* the member sequences of length at most n over the types ts; the i-th
\* member is named "m<i>"
MemberSeqs(ts, n) ==
    UNION { { [i \in 1..k |-> Member(f[i], <<"m">> \o ToDecimal(i))] : f \in [1..k -> ts] }
            : k \in 0..n }

SizeConstantInputs ==
    { Constant(S_u32, I_N, <<"3">>),
      Constant(S_u32, S_u8, <<"3">>) }

SizeStructInputs ==
    { StructDef(I_S, <<Member(S_u32, I_a), Member(S_u8, I_b)>>) }

BuildConstant ==
    /\ nops < MaxSizeOps
    /\ last.op # "calculate_member_size"
    /\ \E c \in SizeConstantInputs :
          Call("add_constant", c, add_constant(c, type_sizes, definition_items))

BuildStruct ==
    /\ nops < MaxSizeOps
    /\ last.op # "calculate_member_size"
    /\ \E s \in SizeStructInputs :
          Call("add_struct", s, add_struct(s, type_sizes, definition_items))

ApplyMemberSize ==
    /\ last.op # "calculate_member_size"
    /\ \E members \in MemberSeqs(SizeTypes, MaxMembers) :
          Apply("calculate_member_size", members,
                calculate_member_size(members, type_sizes))

NextSize ==
    \/ BuildConstant
    \/ BuildStruct
    \/ ApplyMemberSize

SpecSize == Init /\ [][NextSize]_vars

(***************************************************************************)
(* calculate_member_size on the spellings of the array shorthand: with or  *)
(* without a space before and after the ';'.                               *)
(***************************************************************************)
\* "[" T pre ";" post C "]"
Spelled(t, pre, post, c) == <<"[">> \o t \o pre \o <<";">> \o post \o c \o <<"]">>

Space == <<" ">>

SpelledTypes ==
    { Spelled(t, pre, post, I_N) : t \in {S_u8, I_S}, pre \in {<<>>, Space}, post \in {<<>>, Space} }

ApplySpelled ==
    /\ last.op # "calculate_member_size"
    /\ \E members \in MemberSeqs(SpelledTypes, MaxSpelled) :
          Apply("calculate_member_size", members,
                calculate_member_size(members, type_sizes))

NextSpelled ==
    \/ BuildConstant
    \/ BuildStruct
    \/ ApplySpelled

SpecSpelled == Init /\ [][NextSpelled]_vars

(***************************************************************************)
(* add_struct on structs with an array member and a possible count         *)
(* sibling: the ArrayInfo post-processing.                                 *)
(***************************************************************************)
I_item == <<"i", "t", "e", "m">>
I_ss == <<"s", "s">>
I_items_count == I_items \o S_count
I_s_count == <<"s">> \o S_count
I_a_count == I_a \o S_count

\* one member of type t named n, then one u32 member per sibling name
InfoStruct(t, n, siblings) ==
    StructDef(I_S, <<Member(t, n)>> \o [i \in 1..Len(siblings) |-> Member(S_u32, siblings[i])])

InfoStructInputs ==
    { InfoStruct(t, n, sib) :
        t \in {ArrayType(S_u8, I_N), ArrayType(I_Q, I_N), S_u32},
        n \in {I_items, I_item, I_ss, I_a},
        sib \in {<<>>, <<I_item_count>>, <<I_items_count>>, <<I_s_count>>, <<I_a_count>>,
                 <<I_a_count, I_item_count>>} }
    \cup
    { StructDef(I_S, <<Member(S_u32, I_item_count), Member(ArrayType(S_u8, I_N), I_a),
                       Member(ArrayType(S_u32, I_N), I_items), Member(S_u32, I_a_count)>>),
      StructDef(I_S, <<Member(ArrayType(S_u8, I_N), I_a),
                       Member(ArrayType(S_u32, I_N), I_items), Member(S_u32, I_a_count)>>) }

AddInfoStruct ==
    /\ last.op # "add_struct"
    /\ \E st \in InfoStructInputs :
          Call("add_struct", st, add_struct(st, type_sizes, definition_items))

NextInfo ==
    \/ BuildConstant
    \/ AddInfoStruct

SpecInfo == Init /\ [][NextInfo]_vars

(***************************************************************************)
(* add_struct on structs that refer to the header names, after             *)
(* add_extensible_structs and add_protocol.                                *)
(***************************************************************************)
I_StHdr == <<"S", "t">> \o S_Hdr
I_StFFI == <<"S", "t">> \o S_FFI

HdrStructInputs ==
    { StructDef(I_T, <<Member(h, I_a)>>) : h \in {I_StHdr, I_StFFI, I_FooBarCommandHdr} }
    \cup { StructDef(I_StHdr, <<Member(S_u32, I_a)>>) }

AddHdrStruct ==
    /\ nops < MaxOps
    /\ \E st \in HdrStructInputs :
          Call("add_struct", st, add_struct(st, type_sizes, definition_items))

NextHdr ==
    \/ AddExtensibleStructs
    \/ AddProtocol
    \/ AddHdrStruct

SpecHdr == Init /\ [][NextHdr]_vars

(***************************************************************************)
(* The run of the program (main.rs): create the output directory, read the *)
(* schema (parser/xml.rs: every add_* call is followed by `?`, so the      *)
(* first error returns from parse_define, parse_api_internal, parse_api    *)
(* and main), then generate (generator/writer.rs).  run.pc is where main   *)
(* is; run.created counts the files File::create has made, run.emitted the *)
(* calls of Writer::write, each of which reads the Api.  run.def is the    *)
(* Definition parse_define is filling, run.defines counts the <define>     *)
(* blocks opened, run.definitions is Api::definitions.                     *)
(***************************************************************************)
I_core == <<"c", "o", "r", "e">>
DefineNames == {I_core}

\* Definition::default()
Definition_default == [name |-> <<>>, items |-> <<>>]

\* Api::add_definition
add_definition(definitions, definition) == Insert(definitions, definition.name, definition)

\* for s in &parsed_structs { def.items.push(s.common.name.clone()) }
RECURSIVE variant_names(_, _)
variant_names(parsed_structs, i) ==
    IF i > Len(parsed_structs) THEN <<>>
    ELSE <<parsed_structs[i].common.name>> \o variant_names(parsed_structs, i + 1)

\* mutant of pushed_names: the synthesized header of a protocol is not listed
pushed_names_without_header(op, arg) ==
    CASE op = "add_struct" -> <<arg.common.name>>
      [] op = "add_extensible_structs" ->
            variant_names(arg.parsed_structs, 1) \o <<arg.stypes_name>>
      [] op = "add_protocol" -> <<arg.name>>
      [] OTHER -> <<arg.name>>

\* the def.items.push calls of parse_define for one element, made before
\* the element's add_* call
pushed_names(op, arg) ==
    CASE op = "add_struct" -> <<arg.common.name>>
      [] op = "add_extensible_structs" ->
            variant_names(arg.parsed_structs, 1) \o <<arg.stypes_name>>
      [] op = "add_protocol" -> <<to_pascal_case(arg.name) \o S_CommandHdr, arg.name>>
      [] OTHER -> <<arg.name>>

\* fs::create_dir_all(&args.out_dir)?
CreateOutDir ==
    /\ run.pc = "main"
    /\ \/ run' = [run EXCEPT !.pc = "parse", !.out_dir = TRUE]
       \/ run' = [run EXCEPT !.pc = "exit", !.result = Err("Io", <<>>)]
    /\ UNCHANGED <<type_sizes, definition_items, last, nops>>

\* mutant of Ingest: a failed call is skipped and reading continues
Ingest_skip_and_continue(op, arg, out) ==
    /\ type_sizes' = out.sizes
    /\ definition_items' = out.items
    /\ last' = [op |-> op, arg |-> arg, pre_sizes |-> type_sizes, result |-> out.result]
    /\ nops' = nops + 1
    /\ UNCHANGED run

\* def.items.push(name); api.add_*(record)? inside parse_define: the
\* pushes, the call, and on Err the return of the error through parse_api
\* to main
Ingest(op, arg, out) ==
    /\ type_sizes' = out.sizes
    /\ definition_items' = out.items
    /\ last' = [op |-> op, arg |-> arg, pre_sizes |-> type_sizes, result |-> out.result]
    /\ nops' = nops + 1
    /\ run' = IF out.result.ok
              THEN [run EXCEPT !.def.items = @ \o pushed_names(op, arg)]
              ELSE [run EXCEPT !.def.items = @ \o pushed_names(op, arg),
                               !.pc = "exit", !.result = out.result]

\* "define" => parse_define(parser, &mut api)?: let mut def = Definition::default()
BeginDefine ==
    /\ run.pc = "parse"
    /\ run.defines < MaxDefines
    /\ run' = [run EXCEPT !.pc = "define", !.def = Definition_default, !.defines = @ + 1]
    /\ UNCHANGED <<type_sizes, definition_items, last, nops>>

\* a <name> element of the block: if def.name.is_empty() { def.name = ... }
ReadDefineName ==
    /\ run.pc = "define"
    /\ \E n \in DefineNames :
          run' = [run EXCEPT !.def.name = IF @ = <<>> THEN n ELSE @]
    /\ UNCHANGED <<type_sizes, definition_items, last, nops>>

\* </define>: api.add_definition(def); Ok(())
EndDefine ==
    /\ run.pc = "define"
    /\ run' = [run EXCEPT !.pc = "parse", !.def = Definition_default,
                          !.definitions = add_definition(@, run.def)]
    /\ UNCHANGED <<type_sizes, definition_items, last, nops>>

Reading == run.pc = "define" /\ nops < MaxOps

ReadConstant ==
    /\ Reading
    /\ \E c \in ConstantInputs :
          Ingest("add_constant", c, add_constant(c, type_sizes, definition_items))

ReadStruct ==
    /\ Reading
    /\ \E st \in StructInputs :
          Ingest("add_struct", st, add_struct(st, type_sizes, definition_items))

ReadEnum ==
    /\ Reading
    /\ \E e \in EnumInputs :
          Ingest("add_enum", e, add_enum(e, type_sizes, definition_items))

ReadFlag ==
    /\ Reading
    /\ \E f \in FlagInputs :
          Ingest("add_flag", f, add_flag(f, type_sizes, definition_items))

\* object.name = object.ffi.clone() is done by the reader too
ReadObject ==
    /\ Reading
    /\ \E o \in ObjectInputs :
          Ingest("add_object", [o EXCEPT !.name = o.ffi],
                 add_object([o EXCEPT !.name = o.ffi], type_sizes, definition_items))

ReadFunction ==
    /\ Reading
    /\ \E f \in FunctionInputs :
          Ingest("add_function", f, add_function(f, type_sizes, definition_items))

ReadProtocol ==
    /\ Reading
    /\ \E p \in ProtocolInputs :
          Ingest("add_protocol", p, add_protocol(p, type_sizes, definition_items))

ReadExtensibleStructs ==
    /\ Reading
    /\ \E x \in ExtensibleInputs :
          Ingest("add_extensible_structs", x,
                 add_extensible_structs(x.stypes_name, x.parsed_structs,
                                        type_sizes, definition_items))

\* a <generated_file> block: api.add_generated_file(gen_file)
ReadGeneratedFile ==
    /\ run.pc = "parse"
    /\ run.generated_files < MaxFiles
    /\ run' = [run EXCEPT !.generated_files = @ + 1]
    /\ UNCHANGED <<type_sizes, definition_items, last, nops>>

\* the end of the document: parse_api returns Ok(api), main calls
\* generate_api
EndOfSchema ==
    /\ run.pc = "parse"
    /\ run' = [run EXCEPT !.pc = "generate"]
    /\ UNCHANGED <<type_sizes, definition_items, last, nops>>

\* one iteration of generate_api's loop: File::create, then Writer::write
\* unless the file type is unknown
GenerateFile ==
    /\ run.pc = "generate"
    /\ run.created < run.generated_files
    /\ \E known \in BOOLEAN :
          run' = [run EXCEPT !.created = @ + 1,
                             !.emitted = IF known THEN @ + 1 ELSE @]
    /\ UNCHANGED <<type_sizes, definition_items, last, nops>>

\* generate_api returns Ok(()), and so does main
EndOfRun ==
    /\ run.pc = "generate"
    /\ run.created = run.generated_files
    /\ run' = [run EXCEPT !.pc = "exit"]
    /\ UNCHANGED <<type_sizes, definition_items, last, nops>>

NextRun ==
    \/ CreateOutDir
    \/ BeginDefine
    \/ ReadDefineName
    \/ EndDefine
    \/ ReadConstant
    \/ ReadStruct
    \/ ReadEnum
    \/ ReadFlag
    \/ ReadObject
    \/ ReadFunction
    \/ ReadProtocol
    \/ ReadExtensibleStructs
    \/ ReadGeneratedFile
    \/ EndOfSchema
    \/ GenerateFile
    \/ EndOfRun

SpecRun == Init /\ [][NextRun]_vars

(***************************************************************************)
(* C1.  calculate_padding.                                                 *)
(***************************************************************************)
\* the padding member the claim names for each p
PaddingScalar == [type_name |-> <<"u", "3", "2">>, qualifier |-> <<>>,
                  name |-> <<"p", "a", "d", "d", "i", "n", "g">>]
PaddingBytes(d) == [type_name |-> <<"[", "u", "8", ";", " ", d, "]">>, qualifier |-> <<>>,
                    name |-> <<"p", "a", "d", "d", "i", "n", "g">>]
PaddingDigit == [p \in {1, 2, 3, 5, 6, 7} |->
                    CASE p = 1 -> "1" [] p = 2 -> "2" [] p = 3 -> "3"
                      [] p = 5 -> "5" [] p = 6 -> "6" [] p = 7 -> "7"]

\* C1: for every size n, with p = (8 - n mod 8) mod 8, calculate_padding
\* returns no member when p = 0, the one scalar member `padding: u32` when
\* p = 4, the one byte-array member `padding: [u8; p]` for every other p,
\* and n + p is a multiple of 8.
C1_PaddingLaw ==
    last.op = "calculate_padding" =>
        LET n == last.arg
            p == (8 - (n % 8)) % 8
        IN  /\ p \in 0..7
            /\ (n + p) % 8 = 0
            /\ (p = 0 => last.result = <<>>)
            /\ (p = 4 => last.result = <<PaddingScalar>>)
            /\ (p \in {1, 2, 3, 5, 6, 7} => last.result = <<PaddingBytes(PaddingDigit[p])>>)

\* a size of 12 was padded by the scalar
C1_Witness ==
    /\ last.op = "calculate_padding"
    /\ last.arg = 12
    /\ last.result = <<PaddingScalar>>

(***************************************************************************)
(* C2, C3, C4.  calculate_member_size.                                     *)
(***************************************************************************)
\* the names an array shorthand of the model is built from
ShorthandNames == {S_u8, S_u32, S_u64, I_S, I_N, I_Q}

\* tn is the shorthand "[T; C]" of the two-part grammar
IsShorthand(tn) == \E t \in ShorthandNames, c \in ShorthandNames : tn = ArrayType(t, c)
ShorthandElement(tn) ==
    CHOOSE t \in ShorthandNames : \E c \in ShorthandNames : tn = ArrayType(t, c)
ShorthandCount(tn) ==
    CHOOSE c \in ShorthandNames : \E t \in ShorthandNames : tn = ArrayType(t, c)

\* a member type resolves: a registry key, or a shorthand of two registry keys
Resolves(tn, sizes) ==
    \/ tn \in DOMAIN sizes
    \/ /\ IsShorthand(tn)
       /\ ShorthandElement(tn) \in DOMAIN sizes
       /\ ShorthandCount(tn) \in DOMAIN sizes

\* what a resolving member type contributes
Contribution(tn, sizes) ==
    IF tn \in DOMAIN sizes THEN sizes[tn]
    ELSE sizes[ShorthandElement(tn)] * sizes[ShorthandCount(tn)]

RECURSIVE SumOfContributions(_, _)
SumOfContributions(members, sizes) ==
    IF members = <<>> THEN 0
    ELSE Contribution(Head(members).type_name, sizes) + SumOfContributions(Tail(members), sizes)

\* C2: a member of type "[T; C]", T registered with size s and C with
\* value n, contributes s * n, and the total of a member sequence is the
\* sum of its members' contributions.
C2_ArraySize ==
    (/\ last.op = "calculate_member_size"
     /\ \A i \in 1..Len(last.arg) : Resolves(last.arg[i].type_name, last.pre_sizes))
    => last.result = Ok(SumOfContributions(last.arg, last.pre_sizes))

\* [S; N] with S of size 5 and N = 3, beside a second member, gave 15 + 4
C2_Witness ==
    /\ last.op = "calculate_member_size"
    /\ Len(last.arg) = 2
    /\ last.arg[1].type_name = T_S_N
    /\ last.arg[2].type_name = S_u32
    /\ I_S \in DOMAIN last.pre_sizes /\ last.pre_sizes[I_S] = 5
    /\ I_N \in DOMAIN last.pre_sizes /\ last.pre_sizes[I_N] = 3
    /\ last.result = Ok(19)

\* the error the claim names for a member type that does not resolve
ExpectedError(tn, sizes) ==
    IF ~starts_with(tn, "[") THEN Err("TypeNotFound", tn)
    ELSE IF ~IsShorthand(tn) THEN Err("InvalidArrayTypeFormat", tn)
    ELSE IF ShorthandElement(tn) \notin DOMAIN sizes
    THEN Err("TypeNotFound", ShorthandElement(tn))
    ELSE Err("ConstantNotFound", ShorthandCount(tn))

\* the first member, in sequence order, that does not resolve (0: none)
FirstUnresolved(members, sizes) ==
    IF \A i \in 1..Len(members) : Resolves(members[i].type_name, sizes) THEN 0
    ELSE CHOOSE i \in 1..Len(members) :
            /\ ~Resolves(members[i].type_name, sizes)
            /\ \A k \in 1..(i - 1) : Resolves(members[k].type_name, sizes)

\* C3: the resolver fails on the first member that cannot be resolved, with
\* TypeNotFound(type) for a type that is neither a key nor array-like,
\* InvalidArrayTypeFormat(type) for an array-like type outside the grammar,
\* TypeNotFound(element) for an unregistered element (whatever the count),
\* ConstantNotFound(count) for a registered element and an unregistered
\* count; it returns a size only when every member resolves.
C3_FirstError ==
    last.op = "calculate_member_size" =>
        LET bad == FirstUnresolved(last.arg, last.pre_sizes) IN
        IF bad = 0 THEN last.result.ok
        ELSE last.result = ExpectedError(last.arg[bad].type_name, last.pre_sizes)

\* [S; N] with neither S nor N registered, ahead of a malformed type: the
\* error is the element's
C3_Witness ==
    /\ last.op = "calculate_member_size"
    /\ Len(last.arg) = 3
    /\ last.arg[1].type_name = S_u32
    /\ last.arg[2].type_name = T_S_N
    /\ last.arg[3].type_name = T_no_semicolon
    /\ I_S \notin DOMAIN last.pre_sizes
    /\ I_N \notin DOMAIN last.pre_sizes
    /\ last.result = Err("TypeNotFound", I_S)

\* the primitive type names, and the size Api::new seeds each with
Primitives == DOMAIN Api_new_type_sizes

SeededSize(tn) ==
    CASE tn \in {<<"u", "8">>, <<"i", "8">>} -> 1
      [] tn \in {<<"u", "1", "6">>, <<"i", "1", "6">>} -> 2
      [] tn \in {<<"u", "3", "2">>, <<"i", "3", "2">>} -> 4
      [] OTHER -> 8

RECURSIVE SumRegistered(_, _)
SumRegistered(members, sizes) ==
    IF members = <<>> THEN 0
    ELSE sizes[Head(members).type_name] + SumRegistered(Tail(members), sizes)

RECURSIVE SumSeeded(_)
SumSeeded(members) ==
    IF members = <<>> THEN 0
    ELSE SeededSize(Head(members).type_name) + SumSeeded(Tail(members))

\* the permutations of 1..n
Perms(n) == { f \in [1..n -> 1..n] : \A i, j \in 1..n : f[i] = f[j] => i = j }

\* C4: for a sequence of members whose types are all primitives, the
\* resolved size is the arithmetic sum of the sizes the registry holds for
\* them (the sizes Api::new seeds, 1/2/4/8, as long as the registry holds
\* the seeded sizes) and is the same for every permutation of the sequence.
C4_PrimitiveSum ==
    (/\ last.op = "calculate_member_size"
     /\ \A i \in 1..Len(last.arg) : last.arg[i].type_name \in Primitives)
    => /\ last.result = Ok(SumRegistered(last.arg, last.pre_sizes))
       /\ (\A tn \in Primitives : last.pre_sizes[tn] = SeededSize(tn))
            => last.result = Ok(SumSeeded(last.arg))
       /\ \A f \in Perms(Len(last.arg)) :
            calculate_member_size([i \in 1..Len(last.arg) |-> last.arg[f[i]]],
                                  last.pre_sizes) = last.result

\* u64, u8, u32 in that order, on the seeded sizes, gave 13
C4_Witness ==
    /\ last.op = "calculate_member_size"
    /\ Len(last.arg) = 3
    /\ last.arg[1].type_name = S_u64
    /\ last.arg[2].type_name = S_u8
    /\ last.arg[3].type_name = S_u32
    /\ \A tn \in Primitives : last.pre_sizes[tn] = SeededSize(tn)
    /\ last.result = Ok(13)

(***************************************************************************)
(* C5, C6.  add_protocol.                                                  *)
(***************************************************************************)
\* the header type name the claims give for the protocol name of the model
HeaderNameOf(name) ==
    CASE name = <<"f", "o", "o", "_", "b", "a", "r">> ->
            <<"F", "o", "o", "B", "a", "r", "C", "o", "m", "m", "a", "n", "d", "H", "d", "r">>

HeaderMember(h) == [type_name |-> h, qualifier |-> <<>>, name |-> <<"h", "d", "r">>]

\* C5: after any sequence of ingestion operations, a successful
\* add_protocol registers "<PascalCase(name)>CommandHdr" with size exactly
\* 8 (the two 4-byte fields proto and size), so that a request with zero
\* declared members is the header alone: size 8, no padding member.
C5_HeaderIsEight ==
    (last.op = "add_protocol" /\ last.result.ok) =>
        LET h == HeaderNameOf(last.arg.name)
            p == definition_items[last.arg.name].val
        IN  /\ h \in DOMAIN type_sizes
            /\ type_sizes[h] = 8
            /\ h \in DOMAIN definition_items
            /\ definition_items[h].kind = "Struct"
            /\ \A i \in 1..Len(last.arg.requests) :
                  last.arg.requests[i].members = <<>>
                     => p.requests[i].members = <<HeaderMember(h)>>

\* the composed member list the claim describes for one request or response
ComposedAsClaimed(stored, given, h, sizes) ==
    LET payload == calculate_member_size(given, sizes)
        pad == calculate_padding(sizes[h] + payload.val)
    IN  /\ payload.ok
        /\ Len(stored) = 1 + Len(given) + Len(pad)
        /\ stored[1] = HeaderMember(h)
        /\ SubSeq(stored, 2, 1 + Len(given)) = given
        /\ (pad # <<>> => stored[Len(stored)] = pad[1])
        /\ ((sizes[h] = 8 /\ payload.val = 4) => stored[Len(stored)] = PaddingScalar)

\* C6: after a successful add_protocol every stored request and response
\* has the member `hdr` of the protocol's header type at index 0, then the
\* caller's members in their order, then a final padding member if and only
\* if calculate_padding of (header size + payload size) returns one; a
\* header of 8 and a payload of 4 give the u32 padding member.
C6_ComposedLayout ==
    (last.op = "add_protocol" /\ last.result.ok) =>
        LET h == HeaderNameOf(last.arg.name)
            item == definition_items[last.arg.name]
        IN  /\ item.kind = "Protocol"
            /\ item.val.protocol_struct_name = h
            /\ Len(item.val.requests) = Len(last.arg.requests)
            /\ Len(item.val.responses) = Len(last.arg.responses)
            /\ \A i \in 1..Len(last.arg.requests) :
                  /\ item.val.requests[i].opcode = last.arg.requests[i].opcode
                  /\ ComposedAsClaimed(item.val.requests[i].members,
                                       last.arg.requests[i].members, h, type_sizes)
            /\ \A i \in 1..Len(last.arg.responses) :
                  /\ item.val.responses[i].opcode = last.arg.responses[i].opcode
                  /\ ComposedAsClaimed(item.val.responses[i].members,
                                       last.arg.responses[i].members, h, type_sizes)

\* a request of one u32 member was stored as hdr, the member, padding: u32,
\* and a response of a u8 and a 4-byte struct as hdr, the members, [u8; 3]
C6_Witness ==
    /\ last.op = "add_protocol"
    /\ last.result.ok
    /\ type_sizes[HeaderNameOf(last.arg.name)] = 8
    /\ Len(last.arg.requests) = 1
    /\ Len(last.arg.responses) = 1
    /\ definition_items[last.arg.name].val.requests[1].members =
          <<HeaderMember(HeaderNameOf(last.arg.name)), Member(S_u32, I_a), PaddingScalar>>
    /\ definition_items[last.arg.name].val.responses[1].members =
          <<HeaderMember(HeaderNameOf(last.arg.name)), Member(S_u8, I_a), Member(I_S, I_b),
            PaddingBytes("3")>>

(***************************************************************************)
(* C7, C8.  add_extensible_structs.                                        *)
(***************************************************************************)
\* the resolved size of the i-th variant's own members
OwnSize(i) == calculate_member_size(last.arg.parsed_structs[i].common.members, type_sizes).val

\* C7: after a successful add_extensible_structs the size registered under
\* each variant's name is the resolved size m of its own members plus the
\* wire-header size h, and h is 8 (discriminator 4 + size field 4).
C7_VariantSizeIsOwnPlusEight ==
    (last.op = "add_extensible_structs" /\ last.result.ok) =>
        \A i \in 1..Len(last.arg.parsed_structs) :
            LET name == last.arg.parsed_structs[i].common.name IN
            /\ name \in DOMAIN type_sizes
            /\ type_sizes[name] = OwnSize(i) + 8

\* the wire-header size: the discriminator enum's size plus the size
\* field's
WireHeaderSize == type_sizes[last.arg.stypes_name] + type_sizes[<<"u", "3", "2">>]

\* C8: after a successful add_extensible_structs each variant's padding,
\* in the item registered under the variant's name and in the copy the
\* family item holds, is calculate_padding of the combined total m + h,
\* and the variant's own member list is stored unchanged.
C8_VariantPadding ==
    (last.op = "add_extensible_structs" /\ last.result.ok) =>
        LET family == definition_items[last.arg.stypes_name] IN
        /\ family.kind = "ExtensibleStructs"
        /\ Len(family.val.structs) = Len(last.arg.parsed_structs)
        /\ \A i \in 1..Len(last.arg.parsed_structs) :
              LET given == last.arg.parsed_structs[i]
                  copy == family.val.structs[i]
                  own == definition_items[given.common.name]
              IN  /\ copy.padding = calculate_padding(OwnSize(i) + WireHeaderSize)
                  /\ copy.common.members = given.common.members
                  /\ copy.stype = given.stype
                  /\ own.kind = "ExtensibleStruct"
                  /\ own.val.padding = calculate_padding(OwnSize(i) + WireHeaderSize)
                  /\ own.val.common.members = given.common.members

\* two variants: A with one u8 (1 + 8 = 9, padded by [u8; 7]) and B with a
\* member of type A and one of the discriminator type (13 + 8 = 21, padded
\* by [u8; 3])
C8_Witness ==
    /\ last.op = "add_extensible_structs"
    /\ last.result.ok
    /\ Len(last.arg.parsed_structs) = 2
    /\ type_sizes[I_A] = 9
    /\ type_sizes[I_B] = 21
    /\ definition_items[I_A].val.padding = <<PaddingBytes("7")>>
    /\ definition_items[last.arg.stypes_name].val.structs[2].padding = <<PaddingBytes("3")>>

(***************************************************************************)
(* C9.  No forward or deferred resolution.                                 *)
(***************************************************************************)
\* the names a member type refers to: the element and the count of a
\* shorthand, else the type itself
RefNames(tn) ==
    IF IsShorthand(tn) THEN {ShorthandElement(tn), ShorthandCount(tn)} ELSE {tn}

MemberRefs(members) == UNION { RefNames(members[i].type_name) : i \in 1..Len(members) }

\* the names the record of the last call refers to
Referenced ==
    CASE last.op = "add_struct" -> MemberRefs(last.arg.common.members)
      [] last.op \in {"add_enum", "add_flag"} -> {last.arg.type_name}
      [] last.op = "add_protocol" ->
            UNION ({ MemberRefs(last.arg.requests[i].members) : i \in 1..Len(last.arg.requests) }
                   \cup { MemberRefs(last.arg.responses[i].members) :
                             i \in 1..Len(last.arg.responses) })
      [] last.op = "add_extensible_structs" ->
            UNION { MemberRefs(last.arg.parsed_structs[i].common.members) :
                       i \in 1..Len(last.arg.parsed_structs) }
      [] OTHER -> {}

\* C9 as stated: add_struct, add_enum, add_flag, add_protocol and
\* add_extensible_structs fail when a name the record refers to is absent
\* from the type-size registry at call time.
C9_AbsentAtCallFails ==
    (\E n \in Referenced : n \notin DOMAIN last.pre_sizes) => ~last.result.ok

\* the names the last call refers to that are neither in the registry at
\* call time nor registered by the call itself before it resolves them: the
\* protocol's own header name; stypes_name and the earlier variants
Unresolvable ==
    CASE last.op = "add_protocol" ->
            Referenced \ (DOMAIN last.pre_sizes \cup {HeaderNameOf(last.arg.name)})
      [] last.op = "add_extensible_structs" ->
            UNION { MemberRefs(last.arg.parsed_structs[i].common.members)
                       \ (DOMAIN last.pre_sizes \cup {last.arg.stypes_name}
                          \cup { last.arg.parsed_structs[j].common.name : j \in 1..(i - 1) })
                    : i \in 1..Len(last.arg.parsed_structs) }
      [] OTHER -> Referenced \ DOMAIN last.pre_sizes

\* the names a call of op on arg may register in the type-size registry
Registers(op, arg) ==
    CASE op = "add_constant" -> {arg.name}
      [] op = "add_struct" -> {arg.common.name}
      [] op \in {"add_enum", "add_flag"} -> {arg.name}
      [] op = "add_protocol" -> {HeaderNameOf(arg.name)}
      [] op = "add_extensible_structs" ->
            {arg.stypes_name} \cup { arg.parsed_structs[i].common.name :
                                        i \in 1..Len(arg.parsed_structs) }
      [] OTHER -> {}

\* C9 as amended: a name must be in the registry at the moment it is
\* resolved.  add_struct, add_enum and add_flag fail when a referenced name
\* is absent at call time and then register nothing; add_protocol and
\* add_extensible_structs fail when a referenced name is absent at call
\* time and is not one the call itself registers before resolving it.
C9_AbsentWhenResolvedFails ==
    /\ (Unresolvable # {}) => ~last.result.ok
    /\ (last.op \in {"add_struct", "add_enum", "add_flag"} /\ ~last.result.ok)
          => type_sizes = last.pre_sizes

\* ... and no failed record is resolved later: a call adds to the registry
\* only names of its own record.
C9_NoDeferredResolution ==
    [][(DOMAIN type_sizes') \ (DOMAIN type_sizes) \subseteq Registers(last'.op, last'.arg)]_vars

C9_EagerResolution == []C9_AbsentWhenResolvedFails /\ C9_NoDeferredResolution

\* struct T, whose member is of type S, was refused while S was absent
C9_Witness ==
    /\ last.op = "add_struct"
    /\ last.arg.common.name = I_T
    /\ last.arg.common.members = <<Member(I_S, I_a)>>
    /\ I_S \notin DOMAIN last.pre_sizes
    /\ last.result = Err("TypeNotFound", I_S)
    /\ I_T \notin DOMAIN type_sizes

(***************************************************************************)
(* C10.  Re-registration.                                                  *)
(***************************************************************************)
\* the name the last call registers its item under
ItemName ==
    CASE last.op \in {"add_constant", "add_enum", "add_flag", "add_function"} -> last.arg.name
      [] last.op = "add_struct" -> last.arg.common.name
      [] last.op = "add_object" -> last.arg.ffi

\* C10: after a successful add_* call for a name that already exists, the
\* item registry holds the new item for the name and the type-size registry
\* the new size; the old size is no longer visible (a function and an
\* object have no size).
C10_OverwriteHidesOld ==
    (/\ last.op \in {"add_constant", "add_struct", "add_enum", "add_flag",
                     "add_function", "add_object"}
     /\ last.result.ok
     /\ ItemName \in DOMAIN last.pre_sizes)
    => /\ ItemName \in DOMAIN definition_items
       /\ definition_items[ItemName].kind =
             (CASE last.op = "add_constant" -> "Constant"
                [] last.op = "add_struct" -> "Struct"
                [] last.op = "add_enum" -> "Enum"
                [] last.op = "add_flag" -> "Flag"
                [] last.op = "add_function" -> "Function"
                [] last.op = "add_object" -> "Object")
       /\ last.op = "add_constant" => type_sizes[ItemName] = parse_usize(last.arg.value)[1]
       /\ last.op = "add_struct" =>
             type_sizes[ItemName] = calculate_member_size(last.arg.common.members,
                                                          last.pre_sizes).val
       /\ last.op \in {"add_enum", "add_flag"} =>
             type_sizes[ItemName] = last.pre_sizes[last.arg.type_name]
       /\ last.op \in {"add_function", "add_object"} => ItemName \notin DOMAIN type_sizes

(***************************************************************************)
(* C11.  Recorded sizes.                                                   *)
(***************************************************************************)
\* the names whose registered item is a struct or an extensible-struct
\* variant
CompositeNames ==
    { n \in DOMAIN definition_items : definition_items[n].kind \in {"Struct", "ExtensibleStruct"} }

\* C11 as stated: once the size of a composite item is recorded in the
\* type-size registry, the value under that name never changes, whatever
\* ingestion operations follow.
C11_SizeNeverChanges ==
    [][\A n \in CompositeNames \cap DOMAIN type_sizes :
          n \in DOMAIN type_sizes' /\ type_sizes'[n] = type_sizes[n]]_vars

\* C11 as amended: a recorded size stays in the registry and changes only
\* when a later call registers an item under that very name again; no call
\* changes the size recorded under a name that is not of its own record
\* (a struct is not resolved again when a type it refers to is replaced).
C11_SizeChangesOnlyOnReregistration ==
    [][\A n \in DOMAIN type_sizes :
          /\ n \in DOMAIN type_sizes'
          /\ type_sizes'[n] # type_sizes[n] => n \in Registers(last'.op, last'.arg)]_vars

\* struct S was registered again with another size while struct T, which
\* has a member of type S, keeps the size recorded for it
C11_Witness ==
    /\ last.op = "add_struct"
    /\ last.result.ok
    /\ last.arg.common.name = I_S
    /\ I_S \in DOMAIN last.pre_sizes
    /\ last.pre_sizes[I_S] # type_sizes[I_S]
    /\ I_T \in DOMAIN last.pre_sizes
    /\ I_T \in DOMAIN definition_items
    /\ definition_items[I_T].kind = "Struct"
    /\ definition_items[I_T].val.common.members = <<Member(I_S, I_a)>>
    /\ type_sizes[I_T] = last.pre_sizes[I_T]
    /\ type_sizes[I_T] # type_sizes[I_S]

(***************************************************************************)
(* C12.  The seeded primitive sizes.                                       *)
(***************************************************************************)
\* C12: in every state reachable from Api::new the primitive types keep
\* their seeded sizes: u8/i8 = 1, u16/i16 = 2, u32/i32 = 4, u64/i64 = 8,
\* f64 = 8, usize = 8 and "*mut std::ffi::c_void" = 8.
C12_PrimitivesKeepSeededSizes ==
    \A p \in { <<"u", "8">>, <<"i", "8">>, <<"u", "1", "6">>, <<"i", "1", "6">>,
               <<"u", "3", "2">>, <<"i", "3", "2">>, <<"u", "6", "4">>, <<"i", "6", "4">>,
               <<"f", "6", "4">>, <<"u", "s", "i", "z", "e">>,
               <<"*", "m", "u", "t", " ", "s", "t", "d", ":", ":", "f", "f", "i", ":", ":",
                 "c", "_", "v", "o", "i", "d">> } :
        p \in DOMAIN type_sizes /\ type_sizes[p] = SeededSize(p)

(***************************************************************************)
(* C13.  The two namespaces.                                               *)
(***************************************************************************)
\* C13: in every reachable state every name whose registered item is a
\* Constant, a Struct (a protocol header included), an Enum, a Flag or an
\* ExtensibleStruct variant has an entry in the type-size registry, and
\* every name whose registered item is a Function or an Object has none.
C13_Lockstep ==
    \A n \in DOMAIN definition_items :
        /\ definition_items[n].kind \in {"Constant", "Struct", "Enum", "Flag", "ExtensibleStruct"}
              => n \in DOMAIN type_sizes
        /\ definition_items[n].kind \in {"Function", "Object"}
              => n \notin DOMAIN type_sizes

(***************************************************************************)
(* C14.  Failed calls.                                                     *)
(***************************************************************************)
\* C14: whenever add_constant, add_struct, add_enum, add_flag, add_protocol
\* or add_extensible_structs returns an error, the type-size registry and
\* the item registry are exactly as they were before the call: no
\* synthesized header, discriminator enum or earlier variant of the failing
\* record has been registered.
C14_NoPartialCommit ==
    [][(/\ last'.op \in {"add_constant", "add_struct", "add_enum", "add_flag",
                         "add_protocol", "add_extensible_structs"}
        /\ ~last'.result.ok)
       => /\ type_sizes' = type_sizes
          /\ definition_items' = definition_items]_vars

(***************************************************************************)
(* C15.  A failed ingestion ends the run.                                  *)
(***************************************************************************)
\* an ingestion operation has failed
IngestionFailed == last.op # "new" /\ ~last.result.ok

\* C15: if an ingestion operation fails while the schema is read, the run
\* ends with that error before generation starts: no emitter reads the
\* registry and no output file is created ...
C15_FailureEndsRun ==
    IngestionFailed =>
        /\ run.pc = "exit"
        /\ run.result = last.result
        /\ run.created = 0
        /\ run.emitted = 0

\* ... and no later ingestion operation (nor any other step of the run) is
\* executed: every step starts where no ingestion has failed.
C15_NoStepAfterFailure == [][~IngestionFailed]_vars

C15_AbortOnFailure == []C15_FailureEndsRun /\ C15_NoStepAfterFailure

\* the third ingestion call failed on a registry the first two had filled,
\* with generated files declared, and the run has ended with its error
C15_Witness ==
    /\ IngestionFailed
    /\ nops = 3
    /\ DOMAIN definition_items # {}
    /\ run.generated_files > 0
    /\ run.pc = "exit"
    /\ run.result = last.result
    /\ run.created = 0

(***************************************************************************)
(* C16.  add_struct does not pad.                                          *)
(***************************************************************************)
\* C16: after a successful add_struct the size registered under the
\* struct's name is exactly the unpadded total of its declared members
\* (three 4-byte members give 12, not 16), and the stored member list is
\* the declared list, with no padding member appended.
C16_StructNotPadded ==
    (last.op = "add_struct" /\ last.result.ok) =>
        LET name == last.arg.common.name
            declared == last.arg.common.members
        IN  /\ name \in DOMAIN type_sizes
            /\ type_sizes[name] = SumOfContributions(declared, last.pre_sizes)
            /\ definition_items[name].kind = "Struct"
            /\ definition_items[name].val.common.name = name
            /\ definition_items[name].val.common.members = declared
            /\ (/\ Len(declared) = 3
                /\ \A i \in 1..3 : declared[i].type_name \in DOMAIN last.pre_sizes
                /\ \A i \in 1..3 : last.pre_sizes[declared[i].type_name] = 4)
               => type_sizes[name] = 12

\* a struct of three u32 members was registered with size 12
C16_Witness ==
    /\ last.op = "add_struct"
    /\ last.result.ok
    /\ Len(last.arg.common.members) = 3
    /\ \A i \in 1..3 : last.arg.common.members[i].type_name = <<"u", "3", "2">>
    /\ last.pre_sizes[<<"u", "3", "2">>] = 4
    /\ type_sizes[last.arg.common.name] = 12
    /\ Len(definition_items[last.arg.common.name].val.common.members) = 3

(***************************************************************************)
(* C17.  Whitespace in the array shorthand.                                *)
(***************************************************************************)
\* the element type T of one of the spellings "[T;C]", "[T; C]", "[T ;C]",
\* "[T ; C]" with count C = N
SpelledElement(tn) ==
    CHOOSE t \in {<<"u", "8">>, <<"S">>} :
        tn \in { <<"[">> \o t \o <<";", "N", "]">>,
                 <<"[">> \o t \o <<";", " ", "N", "]">>,
                 <<"[">> \o t \o <<" ", ";", "N", "]">>,
                 <<"[">> \o t \o <<" ", ";", " ", "N", "]">> }

RECURSIVE SumOfSpelled(_, _)
SumOfSpelled(members, sizes) ==
    IF members = <<>> THEN 0
    ELSE sizes[SpelledElement(Head(members).type_name)] * sizes[<<"N">>]
         + SumOfSpelled(Tail(members), sizes)

\* C17: for registered T (size s) and C (value n) the member types
\* "[T;C]", "[T; C]", "[T ;C]" and "[T ; C]" all resolve to s * n.
C17_WhitespaceTolerated ==
    (/\ last.op = "calculate_member_size"
     /\ <<"N">> \in DOMAIN type_sizes
     /\ \A i \in 1..Len(last.arg) :
           SpelledElement(last.arg[i].type_name) \in DOMAIN type_sizes)
    => last.result = Ok(SumOfSpelled(last.arg, type_sizes))

(***************************************************************************)
(* C18.  ArrayInfo inference.                                              *)
(***************************************************************************)
\* the array name with one trailing 's' removed
Singular(n) == IF Len(n) > 0 /\ n[Len(n)] = "s" THEN SubSeq(n, 1, Len(n) - 1) ELSE n

CountSibling(n) == Singular(n) \o <<"_", "c", "o", "u", "n", "t">>

\* the ArrayInfo entries the claim describes, in member order
RECURSIVE ExpectedArrayInfo(_, _)
ExpectedArrayInfo(members, i) ==
    IF i > Len(members) THEN <<>>
    ELSE (IF /\ IsShorthand(members[i].type_name)
             /\ \E k \in 1..Len(members) : members[k].name = CountSibling(members[i].name)
          THEN <<[array_member_name |-> members[i].name,
                  array_base_type |-> ShorthandElement(members[i].type_name),
                  count_member_name |-> CountSibling(members[i].name)]>>
          ELSE <<>>)
         \o ExpectedArrayInfo(members, i + 1)

C18_WitnessUnpaired ==
    /\ last.op = "add_struct"
    /\ last.result.ok
    /\ \E i \in 1..Len(last.arg.common.members) :
          IsShorthand(last.arg.common.members[i].type_name)
    /\ definition_items[last.arg.common.name].val.common.array_info = <<>>

(***************************************************************************)
(* C19.  The registries only grow.                                         *)
(***************************************************************************)
\* C19: across every ingestion operation, successful or failed, the key
\* set of the type-size registry and the key set of the item registry
\* after the call are supersets of the key sets before it: no name is ever
\* removed.
C19_RegistriesOnlyGrow ==
    [][/\ DOMAIN type_sizes \subseteq DOMAIN type_sizes'
       /\ DOMAIN definition_items \subseteq DOMAIN definition_items']_vars

\* a call on a registry that already held items has added a name to the
\* type-size registry and kept every earlier one
C19_Witness ==
    /\ last.op # "new"
    /\ nops >= 2
    /\ DOMAIN last.pre_sizes \subseteq DOMAIN type_sizes
    /\ DOMAIN last.pre_sizes # DOMAIN type_sizes
    /\ DOMAIN last.pre_sizes # DOMAIN Api_new_type_sizes
    /\ Cardinality(DOMAIN definition_items) >= 2

(***************************************************************************)
(* C20.  add_function and add_object.                                      *)
(***************************************************************************)
\* C20: add_function and add_object never fail and leave the type-size
\* registry as it was; add_function stores the signature under its name
\* without resolving any parameter or return type, and add_object stores
\* the object under its ffi name, whatever name the record carried ...
C20_StoredUnresolved ==
    /\ last.op = "add_function" =>
          /\ last.result.ok
          /\ type_sizes = last.pre_sizes
          /\ last.arg.name \in DOMAIN definition_items
          /\ definition_items[last.arg.name] = [kind |-> "Function", val |-> last.arg]
    /\ last.op = "add_object" =>
          /\ last.result.ok
          /\ type_sizes = last.pre_sizes
          /\ last.arg.ffi \in DOMAIN definition_items
          /\ definition_items[last.arg.ffi] =
                [kind |-> "Object",
                 val |-> [name |-> last.arg.ffi, ffi |-> last.arg.ffi, rust |-> last.arg.rust]]

\* ... and neither call touches the type-size registry or any item under
\* another name.
C20_Frame ==
    [][last'.op \in {"add_function", "add_object"} =>
          /\ type_sizes' = type_sizes
          /\ \A n \in DOMAIN definition_items :
                n # (IF last'.op = "add_function" THEN last'.arg.name ELSE last'.arg.ffi)
                   => n \in DOMAIN definition_items'
                      /\ definition_items'[n] = definition_items[n]]_vars

C20_FunctionObjectFrame == []C20_StoredUnresolved /\ C20_Frame

\* a function with a parameter of an unregistered type was stored on a
\* registry that already held an item
C20_Witness ==
    /\ last.op = "add_function"
    /\ last.result.ok
    /\ \E i \in 1..Len(last.arg.members) : last.arg.members[i].type_name \notin DOMAIN type_sizes
    /\ definition_items[last.arg.name].kind = "Function"
    /\ Cardinality(DOMAIN definition_items) >= 2

(***************************************************************************)
(* C21.  The discriminator enum of an extensible family.                   *)
(***************************************************************************)
\* the entries of the discriminator enum: one per variant, in variant order
DiscriminatorEntries(variants) ==
    [i \in 1..Len(variants) |->
        [name |-> variants[i].stype.name, value |-> variants[i].stype.value]]

\* C21: after a successful add_extensible_structs(stypes_name, variants)
\* the discriminator enum has been registered with size 4 under
\* stypes_name, the item finally stored under stypes_name is the
\* ExtensibleStructs family, which replaces the Enum item written by
\* add_enum, and the type-size registry still maps stypes_name to the
\* enum's size; where the call fails after add_enum, the Enum item is the
\* one left under stypes_name, with one entry per variant in variant order.
C21_DiscriminatorEnum ==
    last.op = "add_extensible_structs" =>
        LET name == last.arg.stypes_name IN
        /\ last.result.ok =>
              /\ name \in DOMAIN type_sizes
              /\ type_sizes[name] = 4
              /\ definition_items[name].kind = "ExtensibleStructs"
              /\ definition_items[name].val.stypes_name = name
        /\ (~last.result.ok /\ name \in DOMAIN definition_items) =>
              /\ definition_items[name].kind = "Enum"
              /\ definition_items[name].val.name = name
              /\ definition_items[name].val.type_name = <<"u", "3", "2">>
              /\ definition_items[name].val.entries = DiscriminatorEntries(last.arg.parsed_structs)
              /\ type_sizes[name] = 4

(***************************************************************************)
(* C22.  The header shapes of an extensible family are not types.          *)
(***************************************************************************)
\* the two header shape names the claim gives for the family name of the
\* model
HeaderShapeNames(stypes_name) ==
    CASE stypes_name = <<"s", "t">> -> { <<"S", "t", "H", "d", "r">>, <<"S", "t", "F", "F", "I">> }

\* C22: add_extensible_structs registers neither header shape: unless it
\* was registered before the call, "<Pascal>Hdr" and "<Pascal>FFI" are
\* absent from both registries after the call ...
C22_ShapesStayAbsent ==
    [][last'.op = "add_extensible_structs" =>
          \A h \in HeaderShapeNames(last'.arg.stypes_name) :
              /\ h \notin DOMAIN type_sizes => h \notin DOMAIN type_sizes'
              /\ h \notin DOMAIN definition_items => h \notin DOMAIN definition_items']_vars

\* ... so a later member of that type fails with TypeNotFound, while
\* add_protocol registers its "<Pascal>CommandHdr" in both registries.
C22_ShapeMemberFails ==
    /\ (/\ last.op = "add_struct"
        /\ last.arg.common.members[1].type_name \in HeaderShapeNames(<<"s", "t">>)
        /\ last.arg.common.members[1].type_name \notin DOMAIN last.pre_sizes)
       => last.result = Err("TypeNotFound", last.arg.common.members[1].type_name)
    /\ (last.op = "add_protocol" /\ last.result.ok)
       => /\ HeaderNameOf(last.arg.name) \in DOMAIN type_sizes
          /\ HeaderNameOf(last.arg.name) \in DOMAIN definition_items
          /\ definition_items[HeaderNameOf(last.arg.name)].kind = "Struct"
    /\ (/\ last.op = "add_struct"
        /\ last.arg.common.members[1].type_name = HeaderNameOf(<<"f", "o", "o", "_", "b", "a", "r">>)
        /\ last.arg.common.members[1].type_name \in DOMAIN last.pre_sizes)
       => last.result.ok

C22_HeaderShapesNotRegistered == []C22_ShapeMemberFails /\ C22_ShapesStayAbsent

\* after a family was registered under st, a struct with a member of type
\* StHdr was refused
C22_Witness ==
    /\ last.op = "add_struct"
    /\ last.result = Err("TypeNotFound", <<"S", "t", "H", "d", "r">>)
    /\ <<"s", "t">> \in DOMAIN definition_items
    /\ definition_items[<<"s", "t">>].kind = "ExtensibleStructs"
    /\ <<"S", "t", "H", "d", "r">> \notin DOMAIN definition_items

(***************************************************************************)
(* C23.  Recorded sizes and the current registry.                          *)
(***************************************************************************)
\* the size recorded under the Struct item n is what its stored members
\* resolve to against the registry sizes
Consistent(n, sizes, items) ==
    /\ n \in DOMAIN sizes
    /\ calculate_member_size(items[n].val.common.members, sizes) = Ok(sizes[n])

StructNames(items) == { n \in DOMAIN items : items[n].kind = "Struct" }

\* C23 as stated: in every reachable state, for every Struct item, the
\* size recorded under its name equals the resolution of its stored
\* members against the current type-size registry.
C23_SizesMatchRegistry ==
    \A n \in StructNames(definition_items) : Consistent(n, type_sizes, definition_items)

\* C23 as amended: the size recorded for a struct is the resolution of its
\* members against the registry the add_struct call started with ...
C23_ResolvedAtRegistration ==
    (last.op = "add_struct" /\ last.result.ok) =>
        LET name == last.arg.common.name IN
        /\ definition_items[name].kind = "Struct"
        /\ definition_items[name].val.common.members = last.arg.common.members
        /\ calculate_member_size(last.arg.common.members, last.pre_sizes) = Ok(type_sizes[name])

\* ... and it keeps matching the current registry across every call that
\* registers neither the struct's name nor a name its members refer to;
\* a call that does may leave the recorded size behind.
C23_ConsistentUntilReregistration ==
    [][\A n \in StructNames(definition_items) :
          (/\ Consistent(n, type_sizes, definition_items)
           /\ n \in DOMAIN definition_items'
           /\ definition_items'[n] = definition_items[n]
           /\ Registers(last'.op, last'.arg)
                 \cap (MemberRefs(definition_items[n].val.common.members) \cup {n}) = {})
          => Consistent(n, type_sizes', definition_items')]_vars

C23_SizesMatchUntilReregistration ==
    []C23_ResolvedAtRegistration /\ C23_ConsistentUntilReregistration

\* struct T has a member of type S; S was registered again with another
\* size, and the size recorded for T is no longer what its members resolve
\* to
C23_Witness ==
    /\ last.op = "add_struct"
    /\ last.result.ok
    /\ \E n \in StructNames(definition_items) :
          /\ n # last.arg.common.name
          /\ last.arg.common.name \in MemberRefs(definition_items[n].val.common.members)
          /\ calculate_member_size(definition_items[n].val.common.members, last.pre_sizes)
                = Ok(type_sizes[n])
          /\ ~Consistent(n, type_sizes, definition_items)

(***************************************************************************)
(* C24.  Resolving the stored requests and responses again.                *)
(***************************************************************************)
\* the requests and responses of the Protocol item stored under name
StoredEntries(name) ==
    LET p == definition_items[name].val IN
    { p.requests[i] : i \in DOMAIN p.requests } \cup { p.responses[i] : i \in DOMAIN p.responses }

\* the full stored member list of an entry resolves to a multiple of 8
ResolvesAligned(members, sizes) ==
    LET r == calculate_member_size(members, sizes) IN
    /\ r.ok
    /\ r.val % NUM_BYTES_IN_U64 = 0

\* C24 as stated: for every request and response stored by a successful
\* add_protocol, SizeResolver applied to the full stored member list
\* (header, payload members and the padding member, if any) against the
\* registry succeeds and returns a multiple of 8.
C24_StoredEntriesResolveAligned ==
    (last.op = "add_protocol" /\ last.result.ok) =>
        \A e \in StoredEntries(last.arg.name) : ResolvesAligned(e.members, type_sizes)

\* the same with the primitives at their seeded sizes when add_protocol was
\* called: what is left is the padding member whose count is a literal
C24_AlignedWithSeededPrimitives ==
    (/\ last.op = "add_protocol"
     /\ last.result.ok
     /\ \A p \in Primitives : last.pre_sizes[p] = SeededSize(p)) =>
        \A e \in StoredEntries(last.arg.name) : ResolvesAligned(e.members, type_sizes)

\* what does hold of every stored entry: the members before the padding
\* member resolve, and with the padding bytes they make a multiple of 8
C24_AlignedByArithmetic ==
    (last.op = "add_protocol" /\ last.result.ok) =>
        \A e \in StoredEntries(last.arg.name) :
            LET n == Len(e.members)
                padded == e.members[n].name = S_padding
                body == IF padded THEN SubSeq(e.members, 1, n - 1) ELSE e.members
                r == calculate_member_size(body, type_sizes)
            IN  /\ r.ok
                /\ padded = (r.val % NUM_BYTES_IN_U64 # 0)
                /\ padded => e.members[n] \in {PaddingScalar} \cup {PaddingBytes(PaddingDigit[q]) : q \in DOMAIN PaddingDigit}

(***************************************************************************)
(* C25.  The names a Definition lists.                                     *)
(***************************************************************************)
\* the names one element of a <define> block contributes, in document
\* order: for a protocol the synthesized header name and then the protocol
\* name, for an extensible family every variant name and then stypes_name,
\* for an object its ffi name
RECURSIVE VariantNames(_)
VariantNames(parsed) ==
    IF parsed = <<>> THEN <<>> ELSE <<Head(parsed).common.name>> \o VariantNames(Tail(parsed))

DocumentNames(op, arg) ==
    CASE op = "add_protocol" -> <<HeaderNameOf(arg.name), arg.name>>
      [] op = "add_extensible_structs" -> VariantNames(arg.parsed_structs) \o <<arg.stypes_name>>
      [] op = "add_object" -> <<arg.ffi>>
      [] op = "add_struct" -> <<arg.common.name>>
      [] OTHER -> <<arg.name>>

\* the schema has been read without an error
SchemaRead == run.pc = "generate" \/ (run.pc = "exit" /\ run.result.ok)

\* C25: after a successful schema read, every item name listed in any
\* stored Definition is a key of the item registry ...
C25_ListedNamesAreItems ==
    SchemaRead =>
        \A d \in DOMAIN run.definitions :
            \A i \in DOMAIN run.definitions[d].items :
                run.definitions[d].items[i] \in DOMAIN definition_items

\* ... and the names appear in the Definition in document order: every
\* element read appends its names to the end of the open Definition, the
\* end of the block stores the Definition as it is under its name, and no
\* other step touches a stored Definition.
C25_DocumentOrder ==
    [][/\ (nops' # nops) =>
             /\ run'.def.items = run.def.items \o DocumentNames(last'.op, last'.arg)
             /\ run'.def.name = run.def.name
       /\ (run.pc = "define" /\ run'.pc = "parse") =>
             /\ DOMAIN run'.definitions = DOMAIN run.definitions \cup {run.def.name}
             /\ run'.definitions[run.def.name] = run.def
             /\ \A d \in DOMAIN run.definitions \ {run.def.name} :
                   run'.definitions[d] = run.definitions[d]
       /\ (nops' = nops /\ run.pc = "define" /\ run'.pc = "define") =>
             run'.def.items = run.def.items
       /\ ~(run.pc = "define" /\ run'.pc = "parse") =>
             run'.definitions = run.definitions]_vars

C25_DefinitionsListItems == []C25_ListedNamesAreItems /\ C25_DocumentOrder

\* the schema was read: two blocks, the first one listing a protocol (its
\* header name, then its name), the second one an object under its ffi name
\* and an extensible family (variant, then stypes_name)
C25_Witness ==
    /\ SchemaRead
    /\ \E d \in DOMAIN run.definitions :
          /\ Len(run.definitions[d].items) = 3
          /\ run.definitions[d].items = <<<<"O">>, <<"A">>, <<"s", "t">>>>
          /\ definition_items[<<"O">>].kind = "Object"
    /\ \E d \in DOMAIN run.definitions :
          run.definitions[d].items = <<HeaderNameOf(<<"f", "o", "o", "_", "b", "a", "r">>),
                                       <<"f", "o", "o", "_", "b", "a", "r">>>>

====
